---- MODULE Spec2Model ----
(***************************************************************************)
(* Model of NetworkPlannerRunner (networker/networkplanner_runner.py):     *)
(* run = _get_demand_nodes ; _build_network ; _store_networks.             *)
(*                                                                         *)
(* Python values used as node identifiers are records                      *)
(*   [ty |-> "int", n |-> k, s |-> ""]   the int k                         *)
(*   [ty |-> "str", n |-> 0, s |-> t]    the str t                         *)
(* so that 0 and '0' are different identifiers with the same str() form.   *)
(* A graph is [nodes, edges, weight, coords, budget]; an edge is the set   *)
(* of its endpoints (one element for a self loop).                         *)
(*                                                                         *)
(* External collaborators are black boxes:                                 *)
(*  - load_existing_networks returns any small graph;                      *)
(*  - merge_network_and_nodes + the network algorithm return any forest    *)
(*    over all demand ids and any namespaced existing ids and junction     *)
(*    ("fake") nodes; demand nodes keep their coordinate and budget, every *)
(*    other node has budget np.inf;                                        *)
(*  - the store's addNode either creates a record on every call or is      *)
(*    get-or-create by coordinate (storeGetOrCreate): the source does not  *)
(*    tell which.                                                          *)
(***************************************************************************)
EXTENDS Integers, Sequences, FiniteSets, TLC

(* ------------------------------ bounds --------------------------------- *)
MaxDemand == 2

MaxFake == 2

MaxExistingNodes == 2

MaxForestNodes == 3

MaxMinNodeCount == 2

(* np.inf, the budget of a node that is no demand node *)
Inf == 1000000

(* --------------------------- python values ----------------------------- *)
PyInt(k) == [ty |-> "int", n |-> k, s |-> ""]

PyStr(t) == [ty |-> "str", n |-> 0, s |-> t]

Digits == <<"0", "1", "2", "3", "4", "5", "6", "7", "8", "9">>

(* str(k) for a natural number k *)
RECURSIVE IntToStr(_)
IntToStr(k) ==
    IF k < 10 THEN Digits[k + 1]
    ELSE IntToStr(k \div 10) \o Digits[(k % 10) + 1]

(* str(n) for an identifier n *)
str(id) == IF id.ty = "str" THEN id.s ELSE IntToStr(id.n)

GridLabelIdentity(id) == id

(* 'grid-' + str(n), lines 137 and 138 *)
GridLabel(id) == PyStr("grid-" \o str(id))

(* identifiers load_existing_networks may use: 0 and '0' have equal str() *)
NativeIds == {PyInt(0), PyStr("0"), PyInt(1)}

EmptyFn == [x \in {} |-> 0]

NoGraph ==
    [present |-> FALSE, nodes |-> {}, edges |-> {}, weight |-> EmptyFn,
     coords |-> EmptyFn, budget |-> EmptyFn]

(* coordinate of a native node of the existing network (all different) *)
NativeCoord(id) == IF id.ty = "int" THEN 50 + id.n ELSE 60

(* coordinate the algorithm gives the junction node with graph id k *)
FakeCoord(k) == 100 + k

Pairs(N) == {e \in SUBSET N : Cardinality(e) = 2}

SubsetsUpTo(S, k) == {T \in SUBSET S : Cardinality(T) <= k}

(* |x - y| *)
Dist(x, y) == IF x < y THEN y - x ELSE x - y

(* the weight of an edge is the distance of its endpoints' coordinates *)
EdgeLength(e, coord) ==
    LET a == CHOOSE n \in e : TRUE
        b == CHOOSE n \in e : n # a
    IN  Dist(coord[a], coord[b])

(* what load_existing_networks can return *)
ExistingNetworks ==
    {[present |-> TRUE, nodes |-> NE[1], edges |-> NE[2],
      weight |-> [e \in NE[2] |-> EdgeLength(e, [n \in e |-> NativeCoord(n)])],
      coords |-> [n \in NE[1] |-> NativeCoord(n)], budget |-> EmptyFn] :
        NE \in UNION {{<<N, E>> : E \in SUBSET Pairs(N)} :
                      N \in SubsetsUpTo(NativeIds, MaxExistingNodes)}}

(* the i-th record of the demand nodes file: getCommonCoordinates(), metric *)
DemandRecord(i) == [coord |-> 10 + i, metric |-> 5 * (i - 1)]

(* the demand nodes file holds at least one node *)
DemandStores == {[i \in 1..k |-> DemandRecord(i)] : k \in 1..MaxDemand}

(* ------------------------------ graphs --------------------------------- *)
Neighbours(n, E) == {m \in UNION E : {n, m} \in E}

RECURSIVE Reach(_, _)
Reach(S, E) ==
    LET T == S \cup UNION {Neighbours(n, E) : n \in S}
    IN  IF T = S THEN S ELSE Reach(T, E)

(* node sets of nx.connected_component_subgraphs(G) *)
Components(N, E) == {Reach({n}, E) : n \in N}

EdgesWithin(C, E) == {e \in E : e \subseteq C}

IsForest(N, E) == Cardinality(E) + Cardinality(Components(N, E)) = Cardinality(N)

(* ------------------------------- state --------------------------------- *)
VARIABLES
    pc,               \* position of run()
    failedAt,         \* stage that raised, "none" while running
    records,          \* what store.cycleNodes() yields, in order
    minNodeCount,     \* config['network_parameters']['minimum_node_count']
    existingSrc,      \* what load_existing_networks returns (NoGraph: not configured)
    storeGetOrCreate, \* behaviour of the external store's addNode
    demand,           \* result of _get_demand_nodes
    existing,         \* existing after namespacing
    forest,           \* result_geo_graph
    filtered,         \* filtered_graph
    msf,              \* msf
    pending,          \* store.session: added, not committed
    committed,        \* store contents after the last commit
    nextSerial,       \* next row of the store's node table
    nextSubnetId,     \* next autoincrement id of the subnet table
    todoComps,        \* components of msf not yet visited (line 188)
    curSubnet,        \* dataset_subnet.id of the proposed pass (0: None)
    todoEdges,        \* edges of the current subgraph not yet visited
    doneEdges,        \* edges of the current subgraph already visited
    curEdge           \* the edge being handled when the run failed

vars ==
    <<pc, failedAt, records, minNodeCount, existingSrc, storeGetOrCreate,
      demand, existing, forest, filtered, msf, pending, committed, nextSerial,
      nextSubnetId, todoComps, curSubnet, todoEdges, doneEdges, curEdge>>

inputs == <<records, minNodeCount, existingSrc, storeGetOrCreate>>

graphs == <<demand, existing, forest, filtered, msf>>

storeVars == <<pending, committed, nextSerial, nextSubnetId>>

walk == <<todoComps, curSubnet, todoEdges, doneEdges, curEdge>>

EmptyStore == [nodes |-> {}, segments |-> {}, subnets |-> {}]

(* the node table after dataset_store.create: ids start at 1 *)
StoreNodes(recs) ==
    {[id |-> PyInt(i), coord |-> recs[i].coord, fake |-> FALSE, serial |-> i] :
        i \in 1..Len(recs)}

Init ==
    /\ pc = "start"
    /\ failedAt = "none"
    /\ records \in DemandStores
    /\ minNodeCount \in 1..MaxMinNodeCount
    /\ existingSrc \in {NoGraph} \cup ExistingNetworks
    /\ storeGetOrCreate \in BOOLEAN
    /\ demand = NoGraph
    /\ existing = NoGraph
    /\ forest = NoGraph
    /\ filtered = NoGraph
    /\ msf = NoGraph
    /\ pending = EmptyStore
    /\ committed = [EmptyStore EXCEPT !.nodes = StoreNodes(records)]
    /\ nextSerial = Len(records) + 1
    /\ nextSubnetId = 1
    /\ todoComps = {}
    /\ curSubnet = 0
    /\ todoEdges = {}
    /\ doneEdges = {}
    /\ curEdge = {}

(* --------------------------- _get_demand_nodes ------------------------- *)
DemandId(i) == PyInt(i - 1)

DemandNodes(recs) ==
    LET N == {DemandId(i) : i \in 1..Len(recs)}
    IN  [present |-> TRUE, nodes |-> N, edges |-> {}, weight |-> EmptyFn,
         coords |-> [n \in N |-> recs[n.n + 1].coord],
         budget |-> [n \in N |-> recs[n.n + 1].metric]]

GetDemandNodes ==
    /\ pc = "start"
    /\ demand' = DemandNodes(records)
    /\ pc' = "demand"
    /\ UNCHANGED <<failedAt, inputs, existing, forest, filtered, msf, storeVars, walk>>

(* ------------------- _build_network: namespacing ----------------------- *)
(* an edge of the relabeled existing graph *)
GridEdge(e) == {GridLabel(n) : n \in e}

(* lines 132-139: relabel in place, then re-key existing.coords.  Nodes    *)
(* with the same new label are merged; of the coordinates (weights) that   *)
(* land on one key, the one written last wins.                             *)
Namespace ==
    /\ pc = "demand"
    /\ existingSrc.present
    /\ LET N == {GridLabel(n) : n \in existingSrc.nodes}
           E == {GridEdge(e) : e \in existingSrc.edges}
       IN  \E c \in [N -> {existingSrc.coords[n] : n \in existingSrc.nodes}],
              w \in [E -> {existingSrc.weight[o] : o \in existingSrc.edges}] :
              /\ \A n \in N : \E o \in existingSrc.nodes :
                     GridLabel(o) = n /\ c[n] = existingSrc.coords[o]
              /\ \A e \in E : \E o \in existingSrc.edges :
                     GridEdge(o) = e /\ w[e] = existingSrc.weight[o]
              /\ existing' = [present |-> TRUE, nodes |-> N, edges |-> E,
                              weight |-> w, coords |-> c, budget |-> EmptyFn]
    /\ pc' = "loaded"
    /\ UNCHANGED <<failedAt, inputs, demand, forest, filtered, msf, storeVars, walk>>

(* line 143-144: no existing network configured *)
NoExisting ==
    /\ pc = "demand"
    /\ ~existingSrc.present
    /\ pc' = "loaded"
    /\ UNCHANGED <<failedAt, inputs, graphs, storeVars, walk>>

(* -------------- _build_network: merge and network algorithm ------------ *)
FakeIds == {PyInt(k) : k \in Cardinality(demand.nodes)..(Cardinality(demand.nodes) + MaxFake - 1)}

ForestCoord(n) ==
    IF n \in demand.nodes THEN demand.coords[n]
    ELSE IF n \in existing.nodes THEN existing.coords[n]
    ELSE FakeCoord(n.n)

(* the weight of a generated edge is the distance of its endpoints *)
ForestWeight(e) == EdgeLength(e, [n \in e |-> ForestCoord(n)])

ForestBudget(n) == IF n \in demand.nodes THEN demand.budget[n] ELSE Inf

(* lines 140-150: the merged graph is handed to the configured algorithm,  *)
(* which returns a forest                                                  *)
Generate ==
    /\ pc = "loaded"
    /\ \E X \in SubsetsUpTo(existing.nodes \cup FakeIds,
                             MaxForestNodes - Cardinality(demand.nodes)) :
       \E E \in SubsetsUpTo(Pairs(demand.nodes \cup X),
                             Cardinality(demand.nodes \cup X) - 1) :
          LET N == demand.nodes \cup X
          IN
          /\ IsForest(N, E)
          /\ forest' = [present |-> TRUE, nodes |-> N, edges |-> E,
                        weight |-> [e \in E |-> ForestWeight(e)],
                        coords |-> [n \in N |-> ForestCoord(n)],
                        budget |-> [n \in N |-> ForestBudget(n)]]
    /\ pc' = "generated"
    /\ UNCHANGED <<failedAt, inputs, demand, existing, filtered, msf, storeVars, walk>>

(* --------------------- _build_network: filter -------------------------- *)
KeepStrict(size, k) == size > k

(* line 156: len(sub.node) >= min_node_count *)
Keep(size, k) == size >= k

Survivors(g, k) == {C \in Components(g.nodes, g.edges) : Keep(Cardinality(C), k)}

(* nx.union_all of the surviving subgraphs: node and edge attributes are   *)
(* carried over, the coords of the GeoGraph are not                        *)
UnionAll(g, S) ==
    LET N == UNION S
        E == EdgesWithin(N, g.edges)
    IN  [present |-> TRUE, nodes |-> N, edges |-> E,
         weight |-> [e \in E |-> g.weight[e]], coords |-> EmptyFn,
         budget |-> [n \in N |-> g.budget[n]]]

Filter ==
    /\ pc = "generated"
    /\ Survivors(forest, minNodeCount) # {}
    /\ filtered' = UnionAll(forest, Survivors(forest, minNodeCount))
    /\ pc' = "filtered"
    /\ UNCHANGED <<failedAt, inputs, demand, existing, forest, msf, storeVars, walk>>

(* lines 155-168 with nothing to unite: union_all raises on an empty       *)
(* sequence, or (networkx 1.9) returns None, which line 168 iterates over  *)
FilterFail ==
    /\ pc = "generated"
    /\ Survivors(forest, minNodeCount) = {}
    /\ pc' = "error"
    /\ failedAt' = "filter"
    /\ UNCHANGED <<inputs, graphs, storeVars, walk>>

(* --------------------- _build_network: realign ------------------------- *)
NewIdUnshifted(i) == i

(* lines 168-170: i + 1 *)
NewId(i) == PyInt(i.n + 1)

(* lines 168-171 *)
Realigned(g, src) ==
    LET N == {NewId(i) : i \in g.nodes}
        E == {{NewId(n) : n \in e} : e \in g.edges}
        old(n) == CHOOSE i \in g.nodes : NewId(i) = n
    IN  [present |-> TRUE, nodes |-> N, edges |-> E,
         weight |-> [e \in E |-> g.weight[{old(n) : n \in e}]],
         coords |-> [n \in N |-> src.coords[old(n)]],
         budget |-> [n \in N |-> g.budget[old(n)]]]

Realign ==
    /\ pc = "filtered"
    /\ \A i \in filtered.nodes : i.ty = "int"
    /\ msf' = Realigned(filtered, forest)
    /\ pc' = "realigned"
    /\ UNCHANGED <<failedAt, inputs, demand, existing, forest, filtered, storeVars, walk>>

(* line 168: i + 1 with i a str raises TypeError *)
RealignFail ==
    /\ pc = "filtered"
    /\ \E i \in filtered.nodes : i.ty = "str"
    /\ pc' = "error"
    /\ failedAt' = "realign"
    /\ UNCHANGED <<inputs, graphs, storeVars, walk>>

(* --------------------------- _store_networks --------------------------- *)
Segment(e, subnet, isExisting, w) ==
    [ends |-> e, subnet_id |-> subnet, is_existing |-> isExisting, weight |-> w]

(* session.commit() *)
Commit(st) ==
    [st EXCEPT !.committed = [nodes |-> st.committed.nodes \cup st.pending.nodes,
                              segments |-> st.committed.segments \cup st.pending.segments,
                              subnets |-> st.committed.subnets \cup st.pending.subnets],
               !.pending = EmptyStore]

(* lines 201-205: store.addNode(coords, is_fake=True); .id = fake; add; commit *)
AddFake(st, id, coord) ==
    LET all == st.committed.nodes \cup st.pending.nodes
        hit == {r \in all : r.coord = coord}
    IN  IF storeGetOrCreate /\ hit # {}
        THEN LET r == CHOOSE x \in hit : TRUE
                 upd(S) == {IF x = r THEN [x EXCEPT !.id = id] ELSE x : x \in S}
             IN  Commit([st EXCEPT !.committed.nodes = upd(st.committed.nodes),
                                   !.pending.nodes = upd(st.pending.nodes)])
        ELSE Commit([st EXCEPT !.pending.nodes = @ \cup
                         {[id |-> id, coord |-> coord, fake |-> TRUE, serial |-> st.serial]},
                               !.serial = @ + 1])

FakeCountAny(i) == TRUE

(* line 207: assert i <= 1 *)
FakeCountOk(i) == i <= 1

(* line 199-200: the endpoints of the edge with budget np.inf, in order *)
Fakes(e) ==
    LET F == {n \in e : msf.budget[n] = Inf}
        lo == CHOOSE n \in F : \A m \in F : n.n <= m.n
    IN  IF F = {} THEN <<>>
        ELSE IF Cardinality(F) = 1 THEN <<lo>>
        ELSE <<lo, CHOOSE n \in F : n # lo>>

(* the loop of lines 199-207 up to its i-th turn *)
RECURSIVE AddFakes(_, _, _)
AddFakes(st, fs, i) ==
    IF i = 0 THEN st
    ELSE LET before == AddFakes(st, fs, i - 1)
         IN  AddFake(before, fs[i], msf.coords[fs[i]])

(* the first turn of the loop whose assertion fails, 0 if none does *)
FailingTurn(fs) ==
    IF \A i \in 1..Len(fs) : FakeCountOk(i) THEN 0
    ELSE CHOOSE i \in 1..Len(fs) : ~FakeCountOk(i) /\ \A j \in 1..(i - 1) : FakeCountOk(j)

StoreState == [pending |-> pending, committed |-> committed, serial |-> nextSerial]

(* lines 177-185: the existing pass.  The Subnet built at line 179 is never *)
(* added to the session, its id is still None (0)                           *)
StoreExisting ==
    /\ pc = "realigned"
    /\ pending' =
          IF existing.present /\ existing.nodes # {}
          THEN [pending EXCEPT !.segments = @ \cup
                   {Segment(e, 0, TRUE, existing.weight[e]) : e \in existing.edges}]
          ELSE pending
    /\ todoComps' = Components(msf.nodes, msf.edges)
    /\ pc' = "storing"
    /\ UNCHANGED <<failedAt, inputs, graphs, committed, nextSerial, nextSubnetId,
                   curSubnet, todoEdges, doneEdges, curEdge>>

(* lines 188-192: next subgraph, its Subnet is added and committed *)
BeginSubnet ==
    /\ pc = "storing"
    /\ todoEdges = {}
    /\ \E C \in todoComps :
          LET st == Commit([StoreState EXCEPT !.pending.subnets = @ \cup {nextSubnetId}])
          IN  /\ pending' = st.pending
              /\ committed' = st.committed
              /\ curSubnet' = nextSubnetId
              /\ nextSubnetId' = nextSubnetId + 1
              /\ todoComps' = todoComps \ {C}
              /\ todoEdges' = EdgesWithin(C, msf.edges)
              /\ doneEdges' = {}
    /\ UNCHANGED <<pc, failedAt, inputs, graphs, nextSerial, curEdge>>

(* lines 195-214 for one edge whose assertions hold *)
StoreEdge ==
    /\ pc = "storing"
    /\ \E e \in todoEdges :
          LET fs == Fakes(e)
              st == AddFakes(StoreState, fs, Len(fs))
          IN  /\ FailingTurn(fs) = 0
              /\ pending' = [st.pending EXCEPT !.segments = @ \cup
                                {Segment(e, curSubnet, FALSE, msf.weight[e])}]
              /\ committed' = st.committed
              /\ nextSerial' = st.serial
              /\ todoEdges' = todoEdges \ {e}
              /\ doneEdges' = doneEdges \cup {e}
    /\ UNCHANGED <<pc, failedAt, inputs, graphs, nextSubnetId, todoComps, curSubnet, curEdge>>

(* lines 195-207 for one edge on which the assertion of line 207 fails *)
StoreEdgeAbort ==
    /\ pc = "storing"
    /\ \E e \in todoEdges :
          LET fs == Fakes(e)
              st == AddFakes(StoreState, fs, FailingTurn(fs))
          IN  /\ FailingTurn(fs) # 0
              /\ pending' = st.pending
              /\ committed' = st.committed
              /\ nextSerial' = st.serial
              /\ curEdge' = e
    /\ pc' = "error"
    /\ failedAt' = "store"
    /\ UNCHANGED <<inputs, graphs, nextSubnetId, todoComps, curSubnet, todoEdges, doneEdges>>

(* line 217 *)
FinalCommit ==
    /\ pc = "storing"
    /\ todoEdges = {}
    /\ todoComps = {}
    /\ pending' = Commit(StoreState).pending
    /\ committed' = Commit(StoreState).committed
    /\ pc' = "done"
    /\ UNCHANGED <<failedAt, inputs, graphs, nextSerial, nextSubnetId, walk>>

Next ==
    \/ GetDemandNodes
    \/ Namespace
    \/ NoExisting
    \/ Generate
    \/ Filter
    \/ FilterFail
    \/ Realign
    \/ RealignFail
    \/ StoreExisting
    \/ BeginSubnet
    \/ StoreEdge
    \/ StoreEdgeAbort
    \/ FinalCommit

Spec == Init /\ [][Next]_vars

(* ------------------------------ properties ----------------------------- *)
SizeOfComponent(n, g) == Cardinality(Reach({n}, g.edges))

IsGridId(n) == n \in existing.nodes

HasInfBudget(n) == msf.budget[n] = Inf

AllSegments == pending.segments \cup committed.segments

(* C1: whenever the component filter returns a graph, its nodes are exactly *)
(* the forest nodes lying in a component of at least minimum_node_count     *)
(* nodes (so a component of exactly that size is kept and no smaller one    *)
(* survives), its edges are the forest edges among those nodes, and with    *)
(* minimum_node_count = 1 node and edge sets are those of the forest.       *)
C1_FilterKeepsExactlyLargeComponents ==
    filtered.present =>
        /\ filtered.nodes = {n \in forest.nodes : SizeOfComponent(n, forest) >= minNodeCount}
        /\ filtered.edges = {e \in forest.edges : e \subseteq filtered.nodes}
        /\ minNodeCount = 1 =>
              filtered.nodes = forest.nodes /\ filtered.edges = forest.edges

(* a component of exactly minimum_node_count = 2 nodes kept, a smaller one dropped *)
C1_Witness ==
    /\ filtered.present
    /\ minNodeCount = 2
    /\ \E n \in filtered.nodes : SizeOfComponent(n, forest) = 2
    /\ \E n \in forest.nodes : n \notin filtered.nodes

(* C2: when every component of the generated forest is smaller than         *)
(* minimum_node_count, _build_network raises no error (and returns an       *)
(* empty msf).                                                              *)
C2_EmptyResultIsNoError ==
    (forest.present /\ \A n \in forest.nodes : SizeOfComponent(n, forest) < minNodeCount) =>
        /\ pc # "error"
        /\ pc \notin {"generated", "filtered"} => msf.present /\ msf.nodes = {} /\ msf.edges = {}

(* C3: in the msf that _build_network returns, the demand record the store  *)
(* yields at 0-based position i (store id i+1, graph id i) appears, if it   *)
(* survived the filter, under id i+1 with the coordinate and the budget of  *)
(* that record, and no two surviving nodes share a realigned id.            *)
C3_RealignmentRecoversStoreIds ==
    msf.present =>
        /\ \A r \in StoreNodes(records) :
              PyInt(r.serial - 1) \in filtered.nodes =>
                 /\ r.id \in msf.nodes
                 /\ msf.coords[r.id] = r.coord
                 /\ msf.coords[r.id] = records[r.serial].coord
                 /\ msf.budget[r.id] = records[r.serial].metric
        /\ Cardinality(msf.nodes) = Cardinality(filtered.nodes)

(* two demand records, one filtered out and one surviving next to a junction node *)
C3_Witness ==
    /\ pc = "realigned"
    /\ Len(records) = 2
    /\ records[1].coord # records[2].coord
    /\ \E n \in demand.nodes : n \in filtered.nodes
    /\ \E n \in demand.nodes : n \in forest.nodes /\ n \notin filtered.nodes
    /\ \E n \in filtered.nodes : n \notin demand.nodes

(* C4: when the filtered forest holds an id of the existing-network         *)
(* namespace, the realigner step completes and keeps that id as it is.      *)
C4_GridIdsPassRealignment ==
    (filtered.present /\ pc # "filtered" /\ \E n \in filtered.nodes : IsGridId(n)) =>
        /\ pc # "error"
        /\ msf.present
        /\ \A n \in filtered.nodes : IsGridId(n) => n \in msf.nodes

(* C5: every proposed Segment added to the store has at most one endpoint   *)
(* with infinite budget; on an edge with two such endpoints the run aborts  *)
(* and no Segment exists for that edge.                                     *)
C5_NoSegmentBetweenTwoFakes ==
    /\ \A sg \in AllSegments :
          ~sg.is_existing => Cardinality({n \in sg.ends : HasInfBudget(n)}) <= 1
    /\ \A e \in msf.edges :
          (pc \in {"done", "error"} /\ msf.present /\ \A n \in e : HasInfBudget(n)) =>
              /\ msf.present /\ pc = "error" /\ failedAt = "store"
              /\ \A sg \in AllSegments : sg.ends # e
    /\ failedAt = "store" =>
          /\ Cardinality({n \in curEdge : HasInfBudget(n)}) = 2
          /\ \A sg \in AllSegments : sg.ends # curEdge

(* the run aborted on an edge of two junction nodes after storing another segment *)
C5_Witness ==
    /\ pc = "error"
    /\ failedAt = "store"
    /\ \E sg \in AllSegments : ~sg.is_existing /\ \E n \in sg.ends : HasInfBudget(n)

(* C6: after the proposed pass, every infinite-budget node of msf that has  *)
(* an edge has exactly one synthetic node record with its id in the store.  *)
C6_OneSyntheticRecordPerFake ==
    pc = "done" =>
        \A n \in msf.nodes :
            (HasInfBudget(n) /\ \E e \in msf.edges : n \in e) =>
                Cardinality({r \in committed.nodes : r.fake /\ r.id = n}) = 1

(* C7: once the run has ended with an existing network loaded, the store    *)
(* holds exactly one is_existing segment per edge of the namespaced         *)
(* existing graph, with that edge's weight, whatever the filter did.        *)
C7_ExistingSegmentsAlwaysPersisted ==
    (existing.present /\ pc \in {"done", "error"}) =>
        /\ \A e \in existing.edges :
              Cardinality({sg \in committed.segments :
                  sg.is_existing /\ sg.ends = e /\ sg.weight = existing.weight[e]}) = 1
        /\ Cardinality({sg \in committed.segments : sg.is_existing}) =
              Cardinality(existing.edges)

(* C8: after namespacing no node id of the existing graph is a demand id.   *)
C8_NamespacesDisjoint ==
    existing.present => existing.nodes \cap demand.nodes = {}

(* an existing network whose native id 0 is also the graph id of a demand node *)
C8_Witness ==
    /\ existing.present
    /\ \E n \in existingSrc.nodes : n \in demand.nodes

(* C9: after namespacing the keys of existing.coords are the nodes of the   *)
(* relabeled graph, no node was lost, and every relabeled node has the      *)
(* coordinate of its original identifier.                                   *)
C9_CoordsRekeyedConsistently ==
    existing.present =>
        /\ DOMAIN existing.coords = existing.nodes
        /\ Cardinality(existing.nodes) = Cardinality(existingSrc.nodes)
        /\ \A n \in existingSrc.nodes :
              /\ GridLabel(n) \in existing.nodes
              /\ existing.coords[GridLabel(n)] = existingSrc.coords[n]

(* C10: when the run fails inside a subnet, the committed store holds all   *)
(* of that subnet's records or none of them.                                *)
C10_SubnetAtomic ==
    failedAt = "store" =>
        LET edges == doneEdges \cup todoEdges
            segs == {sg \in committed.segments : sg.subnet_id = curSubnet}
            fakes == {n \in UNION edges : HasInfBudget(n)}
            nodes == {r \in committed.nodes : r.fake /\ r.id \in fakes}
        IN  \/ /\ curSubnet \notin committed.subnets
               /\ segs = {}
               /\ nodes = {}
            \/ /\ curSubnet \in committed.subnets
               /\ {sg.ends : sg \in segs} = edges
               /\ {r.id : r \in nodes} = fakes

====
